---- MODULE Spec2Model ----
(***************************************************************************)
(* Ban chess ("Bess") layer of python-bess: BessMove (notation codec),     *)
(* BessBoard (a chess.Board subclass carrying current_ban and overriding   *)
(* generate_pseudo_legal_moves) and the two move-generator wrappers.       *)
(*                                                                         *)
(* BessBoard inherits everything else from chess.Board (python-chess 1.x): *)
(* push, pop, generate_legal_moves, is_pseudo_legal, is_legal, is_check,   *)
(* is_checkmate, is_stalemate.  Those inherited methods are modelled here  *)
(* as they dispatch into the subclass: a call self.generate_pseudo_legal_  *)
(* moves inside chess.Board reaches the override of BessBoard.             *)
(*                                                                         *)
(* The board is BoardSize x BoardSize, positions carry no castling rights  *)
(* and no en-passant square, pawns advance one square; drops do not exist. *)
(***************************************************************************)
EXTENDS Integers, Sequences, FiniteSets, TLC

\* ------------------------------------------------------------------ bounds
BoardSize == 4
MaxPly == 2

\* --------------------------------------------------- chess piece constants
None == 0
PAWN == 1
KNIGHT == 2
BISHOP == 3
ROOK == 4
QUEEN == 5
KING == 6
WHITE == TRUE
BLACK == FALSE

PIECE_TYPES == <<PAWN, KNIGHT, BISHOP, ROOK, QUEEN, KING>>
PieceTypeSet == {PIECE_TYPES[i] : i \in 1..Len(PIECE_TYPES)}

\* ---------------------------------------------------------- board geometry
Squares == 0..(BoardSize * BoardSize - 1)
Sq(f, r) == r * BoardSize + f
square_file(s) == s % BoardSize
square_rank(s) == s \div BoardSize
LastRank == BoardSize - 1

Abs(x) == IF x < 0 THEN 0 - x ELSE x
Sgn(x) == IF x < 0 THEN 0 - 1 ELSE IF x > 0 THEN 1 ELSE 0
Range(s) == {s[i] : i \in 1..Len(s)}
SetMax(S) == CHOOSE x \in S : \A y \in S : y <= x

\* scan_reversed: the squares of a mask, highest first
RECURSIVE scan_reversed(_)
scan_reversed(S) ==
  IF S = {} THEN <<>>
  ELSE LET m == SetMax(S) IN <<m>> \o scan_reversed(S \ {m})

\* Concatenation of f[x] for x along the sequence ord (nested generator loops)
RECURSIVE ConcatMap(_, _)
ConcatMap(f, ord) ==
  IF ord = <<>> THEN <<>>
  ELSE f[Head(ord)] \o ConcatMap(f, Tail(ord))

Empty == [t |-> None, c |-> WHITE]
Piece(t, c) == [t |-> t, c |-> c]

\* A position given as placements <<file, rank, type, color>>
BoardOf(placements) ==
  [s \in Squares |->
     IF \E p \in placements : Sq(p[1], p[2]) = s
     THEN LET p == CHOOSE q \in placements : Sq(q[1], q[2]) = s
          IN Piece(p[3], p[4])
     ELSE Empty]

occupied(b) == {s \in Squares : b[s].t # None}
occupied_co(b, color) == {s \in Squares : b[s].t # None /\ b[s].c = color}
OfType(b, t) == {s \in Squares : b[s].t = t}
piece_type_at(b, s) == b[s].t

Aligned(a, s) ==
  /\ a # s
  /\ \/ square_file(a) = square_file(s)
     \/ square_rank(a) = square_rank(s)
     \/ Abs(square_file(a) - square_file(s)) = Abs(square_rank(a) - square_rank(s))

\* between(a, b): the squares strictly between two aligned squares
BB_BETWEEN ==
  [a \in Squares |-> [s \in Squares |->
     IF ~Aligned(a, s) THEN {}
     ELSE LET df == Sgn(square_file(s) - square_file(a))
              dr == Sgn(square_rank(s) - square_rank(a))
              n == IF square_file(a) # square_file(s)
                   THEN Abs(square_file(s) - square_file(a))
                   ELSE Abs(square_rank(s) - square_rank(a))
          IN {Sq(square_file(a) + k * df, square_rank(a) + k * dr) : k \in 1..(n - 1)}]]
between(a, s) == BB_BETWEEN[a][s]

\* ray(a, b): the whole line through two aligned squares
BB_RAYS ==
  [a \in Squares |-> [s \in Squares |->
     IF ~Aligned(a, s) THEN {}
     ELSE {x \in Squares : x = a \/ x = s \/ (Aligned(a, x) /\ Aligned(s, x) /\
             (square_file(x) - square_file(a)) * (square_rank(s) - square_rank(a))
               = (square_rank(x) - square_rank(a)) * (square_file(s) - square_file(a)))}]]
ray(a, s) == BB_RAYS[a][s]

BB_KING_ATTACKS ==
  [s \in Squares |->
     {x \in Squares : x # s /\ Abs(square_file(x) - square_file(s)) <= 1
                             /\ Abs(square_rank(x) - square_rank(s)) <= 1}]
KingAttacks(s) == BB_KING_ATTACKS[s]
BB_KNIGHT_ATTACKS ==
  [s \in Squares |->
     {x \in Squares :
        LET df == Abs(square_file(x) - square_file(s))
            dr == Abs(square_rank(x) - square_rank(s))
        IN (df = 1 /\ dr = 2) \/ (df = 2 /\ dr = 1)}]
KnightAttacks(s) == BB_KNIGHT_ATTACKS[s]
BB_PAWN_ATTACKS ==
  [color \in BOOLEAN |-> [s \in Squares |->
     {x \in Squares : Abs(square_file(x) - square_file(s)) = 1
        /\ square_rank(x) = square_rank(s) + (IF color = WHITE THEN 1 ELSE 0 - 1)}]]
PawnAttacks(color, s) == BB_PAWN_ATTACKS[color][s]
BB_FILE_RANK_LINES ==
  [s \in Squares |->
     {x \in Squares : x # s
        /\ (square_file(x) = square_file(s) \/ square_rank(x) = square_rank(s))}]
BB_DIAG_LINES ==
  [s \in Squares |->
     {x \in Squares : x # s
        /\ Abs(square_file(x) - square_file(s)) = Abs(square_rank(x) - square_rank(s))}]
RookAttacks(b, s) ==
  LET occ == occupied(b)
  IN {x \in BB_FILE_RANK_LINES[s] : between(s, x) \cap occ = {}}
BishopAttacks(b, s) ==
  LET occ == occupied(b)
  IN {x \in BB_DIAG_LINES[s] : between(s, x) \cap occ = {}}

attacks_mask(b, s) ==
  CASE b[s].t = PAWN -> PawnAttacks(b[s].c, s)
    [] b[s].t = KNIGHT -> KnightAttacks(s)
    [] b[s].t = KING -> KingAttacks(s)
    [] b[s].t = BISHOP -> BishopAttacks(b, s)
    [] b[s].t = ROOK -> RookAttacks(b, s)
    [] b[s].t = QUEEN -> BishopAttacks(b, s) \cup RookAttacks(b, s)
    [] OTHER -> {}

\* chess.Board.attackers_mask: looks outward from the attacked square
attackers_mask(b, color, s) ==
  LET occ == occupied(b)
  IN {x \in BB_KING_ATTACKS[s] : b[x].t = KING /\ b[x].c = color}
     \cup {x \in BB_KNIGHT_ATTACKS[s] : b[x].t = KNIGHT /\ b[x].c = color}
     \cup {x \in BB_FILE_RANK_LINES[s] :
             b[x].t \in {ROOK, QUEEN} /\ b[x].c = color /\ between(s, x) \cap occ = {}}
     \cup {x \in BB_DIAG_LINES[s] :
             b[x].t \in {BISHOP, QUEEN} /\ b[x].c = color /\ between(s, x) \cap occ = {}}
     \cup {x \in BB_PAWN_ATTACKS[~color][s] : b[x].t = PAWN /\ b[x].c = color}

\* ------------------------------------------------------------------- moves
\* chess.Move and BessMove are distinct dataclasses: values of different
\* classes never compare equal.  A chess.Move has no ban_piece attribute.
Move(from, to, promotion) ==
  [cls |-> "Move", from_square |-> from, to_square |-> to,
   promotion |-> promotion, ban_piece |-> None]
BessMove(from, to, ban, promotion) ==
  [cls |-> "BessMove", from_square |-> from, to_square |-> to,
   promotion |-> promotion, ban_piece |-> ban]
BessMove_null == BessMove(0, 0, None, None)
BessMove_move(m) == Move(m.from_square, m.to_square, m.promotion)
MoveBool(m) ==
  IF m.cls = "BessMove"
  THEN m.from_square # 0 \/ m.to_square # 0 \/ m.promotion # None \/ m.ban_piece # None
  ELSE m.from_square # 0 \/ m.to_square # 0 \/ m.promotion # None

PromotionOrder == <<QUEEN, ROOK, BISHOP, KNIGHT>>

\* A pawn move to the first or last rank is yielded once per promotion piece
PawnMovesTo(f, t) ==
  IF square_rank(t) \in {0, LastRank}
  THEN [i \in 1..Len(PromotionOrder) |-> Move(f, t, PromotionOrder[i])]
  ELSE <<Move(f, t, None)>>

\* Piece moves: for from_square in scan_reversed(non_pawns), for to_square in
\* scan_reversed(attacks & ~our_pieces & to_mask)
PieceMoves(b, our_pieces, non_pawns, to_mask) ==
  ConcatMap([f \in non_pawns |->
               ConcatMap([t \in Squares |-> <<Move(f, t, None)>>],
                         scan_reversed((attacks_mask(b, f) \ our_pieces) \cap to_mask))],
            scan_reversed(non_pawns))

\* Pawn captures: for from_square in scan_reversed(capturers), for to_square
\* in scan_reversed(pawn attacks & their pieces & to_mask)
PawnCaptures(b, turn, capturers, to_mask) ==
  ConcatMap([f \in capturers |->
               ConcatMap([t \in Squares |-> PawnMovesTo(f, t)],
                         scan_reversed((PawnAttacks(turn, f) \cap occupied_co(b, ~turn))
                                         \cap to_mask))],
            scan_reversed(capturers))

\* Single pawn advances: the pawns shifted one rank onto empty squares
PawnSingles(step, single_moves) ==
  ConcatMap([t \in Squares |-> PawnMovesTo(t - step, t)], scan_reversed(single_moves))

PawnMoves(b, turn, pawns, step, to_mask) ==
  IF pawns = {} THEN <<>>
  ELSE PawnCaptures(b, turn, pawns, to_mask)
         \o PawnSingles(step, {t \in Squares : (t - step) \in pawns /\ t \notin occupied(b)}
                                \cap to_mask)

PseudoLegalOf(b, turn, our_pieces, from_mask, to_mask) ==
  PieceMoves(b, our_pieces, (our_pieces \ OfType(b, PAWN)) \cap from_mask, to_mask)
    \o PawnMoves(b, turn, (OfType(b, PAWN) \cap our_pieces) \cap from_mask,
                 IF turn = WHITE THEN BoardSize ELSE 0 - BoardSize, to_mask)

\* chess.Board.generate_pseudo_legal_moves(from_mask, to_mask): the base
\* generator reached through super() by the override.
ChessPseudoLegal(b, turn, from_mask, to_mask) ==
  PseudoLegalOf(b, turn, occupied_co(b, turn), from_mask, to_mask)

\* ------------------------------------------------- BessBoard (the override)
pawns(b) == OfType(b, PAWN)
knights(b) == OfType(b, KNIGHT)
bishops(b) == OfType(b, BISHOP)
rooks(b) == OfType(b, ROOK)
queens(b) == OfType(b, QUEEN)
kings(b) == OfType(b, KING)
BB_ALL == Squares

\* for move in moves: for piece in chess.PIECE_TYPES: yield BessMove(...)
RECURSIVE WithEachBan(_)
WithEachBan(moves) ==
  IF moves = <<>> THEN <<>>
  ELSE [j \in 1..Len(PIECE_TYPES) |->
          BessMove(Head(moves).from_square, Head(moves).to_square,
                   PIECE_TYPES[j], Head(moves).promotion)]
       \o WithEachBan(Tail(moves))

\* The chain with the bishop ban dropping the rook moves instead
chain_rook_for_bishop(ban, pm, nm, bm, rm, qm, km) ==
  CASE ban = PAWN -> nm \o bm \o rm \o qm \o km
    [] ban = KNIGHT -> pm \o bm \o rm \o qm \o km
    [] ban = BISHOP -> pm \o nm \o bm \o qm \o km
    [] ban = ROOK -> pm \o nm \o bm \o qm \o km
    [] ban = QUEEN -> pm \o nm \o bm \o rm \o km
    [] ban = KING -> pm \o nm \o bm \o rm \o qm
    [] ban = None -> pm \o nm \o bm \o rm \o qm \o km

\* The chain with the king ban keeping the king moves all the same
chain_king_kept(ban, pm, nm, bm, rm, qm, km) ==
  CASE ban = PAWN -> nm \o bm \o rm \o qm \o km
    [] ban = KNIGHT -> pm \o bm \o rm \o qm \o km
    [] ban = BISHOP -> pm \o nm \o rm \o qm \o km
    [] ban = ROOK -> pm \o nm \o bm \o qm \o km
    [] ban = QUEEN -> pm \o nm \o bm \o rm \o km
    [] ban = KING -> pm \o nm \o bm \o rm \o qm \o km
    [] ban = None -> pm \o nm \o bm \o rm \o qm \o km

\* moves = itertools.chain(...): by self.current_ban, the six generators
\* chained without the one of the banned piece type
chain(ban, pm, nm, bm, rm, qm, km) ==
  CASE ban = PAWN -> nm \o bm \o rm \o qm \o km
    [] ban = KNIGHT -> pm \o bm \o rm \o qm \o km
    [] ban = BISHOP -> pm \o nm \o rm \o qm \o km
    [] ban = ROOK -> pm \o nm \o bm \o qm \o km
    [] ban = QUEEN -> pm \o nm \o bm \o rm \o km
    [] ban = KING -> pm \o nm \o bm \o rm \o qm
    [] ban = None -> pm \o nm \o bm \o rm \o qm \o km

\* BessBoard.generate_pseudo_legal_moves(from_mask, to_mask)
generate_pseudo_legal_moves(b, turn, ban, from_mask, to_mask) ==
  WithEachBan(chain(ban,
    ChessPseudoLegal(b, turn, from_mask \cap pawns(b), to_mask),
    ChessPseudoLegal(b, turn, from_mask \cap knights(b), to_mask),
    ChessPseudoLegal(b, turn, from_mask \cap bishops(b), to_mask),
    ChessPseudoLegal(b, turn, from_mask \cap rooks(b), to_mask),
    ChessPseudoLegal(b, turn, from_mask \cap queens(b), to_mask),
    ChessPseudoLegal(b, turn, from_mask \cap kings(b), to_mask)))

\* --------------------------------------- inherited chess.Board machinery
king(b, color) ==
  LET king_mask == kings(b) \cap occupied_co(b, color)
  IN IF king_mask = {} THEN None - 1 ELSE SetMax(king_mask)
HasKing(b, color) == kings(b) \cap occupied_co(b, color) # {}

\* The board after the piece on from_square has gone to to_square
BoardAfter(b, turn, m) ==
  [b EXCEPT ![m.from_square] = Empty,
            ![m.to_square] = Piece(IF m.promotion # None THEN m.promotion
                                   ELSE b[m.from_square].t, turn)]

\* chess.Board._is_safe, by its contract for a pseudo-legal move: the
\* mover's king is not attacked once the move is made.
is_safe(b, turn, m) ==
  LET b2 == BoardAfter(b, turn, m)
  IN ~HasKing(b2, turn) \/ attackers_mask(b2, ~turn, king(b2, turn)) = {}

is_check(b, turn) ==
  HasKing(b, turn) /\ attackers_mask(b, ~turn, king(b, turn)) # {}

\* The king steps of _generate_evasions, built as chess.Move
KingEvasions(b, turn, k, attacked, from_mask, to_mask) ==
  IF k \in from_mask
  THEN ConcatMap([t \in Squares |-> <<Move(k, t, None)>>],
                 scan_reversed(((KingAttacks(k) \ occupied_co(b, turn)) \ attacked)
                                 \cap to_mask))
  ELSE <<>>

\* The blocks and captures of _generate_evasions against a single checker,
\* which come from self.generate_pseudo_legal_moves
BlockOrCapture(b, turn, ban, k, checker, checkers, from_mask, to_mask) ==
  IF checkers = {checker}
  THEN generate_pseudo_legal_moves(b, turn, ban, from_mask \ kings(b),
                                   (between(k, checker) \cup checkers) \cap to_mask)
  ELSE <<>>

\* chess.Board._generate_evasions
generate_evasions(b, turn, ban, k, checkers, from_mask, to_mask) ==
  KingEvasions(b, turn, k,
               UNION {ray(k, c) \ {c} :
                        c \in checkers \cap (bishops(b) \cup rooks(b) \cup queens(b))},
               from_mask, to_mask)
    \o BlockOrCapture(b, turn, ban, k, SetMax(checkers), checkers, from_mask, to_mask)

\* _is_safe reads the squares of the move only, so the six announcements of
\* one board move share one verdict
SelectSafe(b, turn, candidates) ==
  LET safeSquares ==
        {ft \in {<<m.from_square, m.to_square, m.promotion>> : m \in Range(candidates)} :
           is_safe(b, turn, Move(ft[1], ft[2], ft[3]))}
      safe(m) == <<m.from_square, m.to_square, m.promotion>> \in safeSquares
  IN SelectSeq(candidates, safe)

\* The candidates of generate_legal_moves: evasions when the king is in
\* check, the pseudo-legal moves otherwise (also when there is no king)
LegalCandidates(b, turn, ban, k, checkers, from_mask, to_mask) ==
  IF checkers # {}
  THEN generate_evasions(b, turn, ban, k, checkers, from_mask, to_mask)
  ELSE generate_pseudo_legal_moves(b, turn, ban, from_mask, to_mask)

\* chess.Board.generate_legal_moves (without a king every candidate is safe)
generate_legal_moves(b, turn, ban, from_mask, to_mask) ==
  SelectSafe(b, turn,
    LegalCandidates(b, turn, ban, king(b, turn),
                    IF HasKing(b, turn) THEN attackers_mask(b, ~turn, king(b, turn)) ELSE {},
                    from_mask, to_mask))

\* chess.Board.is_pseudo_legal
is_pseudo_legal(b, turn, ban, m) ==
  LET piece == piece_type_at(b, m.from_square)
      from_mask == {m.from_square}
      to_mask == {m.to_square}
  IN IF ~MoveBool(m) THEN FALSE
     ELSE IF piece = None THEN FALSE
     ELSE IF occupied_co(b, turn) \cap from_mask = {} THEN FALSE
     ELSE IF m.promotion # None /\
             (piece # PAWN
              \/ (turn = WHITE /\ square_rank(m.to_square) # LastRank)
              \/ (turn = BLACK /\ square_rank(m.to_square) # 0)) THEN FALSE
     ELSE IF occupied_co(b, turn) \cap to_mask # {} THEN FALSE
     ELSE IF piece = PAWN
          THEN m \in Range(generate_pseudo_legal_moves(b, turn, ban, from_mask, to_mask))
     ELSE attacks_mask(b, m.from_square) \cap to_mask # {}

\* chess.Board.is_into_check
is_into_check(b, turn, ban, m) ==
  IF ~HasKing(b, turn) THEN FALSE
  ELSE LET k == king(b, turn)
           checkers == attackers_mask(b, ~turn, k)
       IN IF checkers # {} /\
             m \notin Range(generate_evasions(b, turn, ban, k, checkers,
                                              {m.from_square}, {m.to_square}))
          THEN TRUE
          ELSE ~is_safe(b, turn, m)

\* chess.Board.is_legal
is_legal(b, turn, ban, m) ==
  is_pseudo_legal(b, turn, ban, m) /\ ~is_into_check(b, turn, ban, m)

is_checkmate(b, turn, ban) ==
  IF ~is_check(b, turn) THEN FALSE
  ELSE generate_legal_moves(b, turn, ban, BB_ALL, BB_ALL) = <<>>

is_stalemate(b, turn, ban) ==
  IF is_check(b, turn) THEN FALSE
  ELSE generate_legal_moves(b, turn, ban, BB_ALL, BB_ALL) = <<>>

\* --------------------------------------------------- the generator wrappers
PseudoLegalBessMoveGenerator_iter(b, turn, ban) ==
  generate_pseudo_legal_moves(b, turn, ban, BB_ALL, BB_ALL)
PseudoLegalBessMoveGenerator_contains(b, turn, ban, m) ==
  is_pseudo_legal(b, turn, ban, BessMove_move(m))
LegalBessMoveGenerator_iter(b, turn, ban) ==
  generate_legal_moves(b, turn, ban, BB_ALL, BB_ALL)
LegalBessMoveGenerator_contains(b, turn, ban, m) ==
  is_legal(b, turn, ban, m)

\* ------------------------------------------------------- BessMove codec
\* Strings are sequences of one-character strings.
FILE_NAMES == <<"a", "b", "c", "d", "e", "f", "g", "h">>
RANK_NAMES == <<"1", "2", "3", "4", "5", "6", "7", "8">>
\* chess.SQUARE_NAMES = [f + r for r in RANK_NAMES for f in FILE_NAMES]
SQUARE_NAMES ==
  [i \in 1..(Len(FILE_NAMES) * Len(RANK_NAMES)) |->
     <<FILE_NAMES[((i - 1) % Len(FILE_NAMES)) + 1],
       RANK_NAMES[((i - 1) \div Len(FILE_NAMES)) + 1]>>]
\* chess.PIECE_SYMBOLS = [None, "p", "n", "b", "r", "q", "k"]; the first
\* entry is None, which no character equals
PIECE_SYMBOLS == <<"", "p", "n", "b", "r", "q", "k">>
piece_symbol(t) == PIECE_SYMBOLS[t + 1]

Ok(m) == [ok |-> TRUE, move |-> m, str |-> <<>>, err |-> ""]
OkStr(str) == [ok |-> TRUE, move |-> BessMove_null, str |-> str, err |-> ""]
Raise(e) == [ok |-> FALSE, move |-> BessMove_null, str |-> <<>>, err |-> e]

\* list.index(x): the 0-based position of x, or ValueError
HasIndex(list, x) == \E i \in 1..Len(list) : list[i] = x
IndexOf(list, x) == (CHOOSE i \in 1..Len(list) : list[i] = x) - 1
\* uci[a:b], slicing never fails
Slice(uci, a, b) ==
  LET hi == IF b < Len(uci) THEN b ELSE Len(uci)
  IN IF a >= hi THEN <<>> ELSE SubSeq(uci, a + 1, hi)
\* uci[i] raises IndexError when i is not below len(uci)
InRange(uci, i) == i < Len(uci)
Item(uci, i) == uci[i + 1]

\* BessMove.from_uci, branch by branch; a ValueError from list.index inside
\* the try blocks becomes InvalidMoveError, an IndexError from uci[i] does not
from_uci(uci) ==
  IF uci = <<"0", "0", "0", "0">> THEN Ok(BessMove_null)
  ELSE IF Len(uci) = 6 /\ ":" = Item(uci, 5) THEN
    IF ~HasIndex(SQUARE_NAMES, Slice(uci, 0, 2)) THEN Raise("InvalidMoveError")
    ELSE IF ~HasIndex(SQUARE_NAMES, Slice(uci, 2, 4)) THEN Raise("InvalidMoveError")
    ELSE IF ~InRange(uci, 6) THEN Raise("IndexError")
    ELSE IF ~HasIndex(PIECE_SYMBOLS, Item(uci, 6)) THEN Raise("InvalidMoveError")
    ELSE Ok(BessMove(IndexOf(SQUARE_NAMES, Slice(uci, 0, 2)),
                     IndexOf(SQUARE_NAMES, Slice(uci, 2, 4)),
                     IndexOf(PIECE_SYMBOLS, Item(uci, 6)), None))
  ELSE IF Len(uci) = 7 /\ ":" = Item(uci, 6) THEN
    IF ~HasIndex(SQUARE_NAMES, Slice(uci, 0, 2)) THEN Raise("InvalidMoveError")
    ELSE IF ~HasIndex(SQUARE_NAMES, Slice(uci, 2, 4)) THEN Raise("InvalidMoveError")
    ELSE IF ~HasIndex(PIECE_SYMBOLS, Item(uci, 5)) THEN Raise("InvalidMoveError")
    ELSE IF ~InRange(uci, 7) THEN Raise("IndexError")
    ELSE IF ~HasIndex(PIECE_SYMBOLS, Item(uci, 7)) THEN Raise("InvalidMoveError")
    ELSE IF IndexOf(SQUARE_NAMES, Slice(uci, 0, 2)) = IndexOf(SQUARE_NAMES, Slice(uci, 2, 4))
         THEN Raise("InvalidMoveError")
    ELSE Ok(BessMove(IndexOf(SQUARE_NAMES, Slice(uci, 0, 2)),
                     IndexOf(SQUARE_NAMES, Slice(uci, 2, 4)),
                     IndexOf(PIECE_SYMBOLS, Item(uci, 7)),
                     IndexOf(PIECE_SYMBOLS, Item(uci, 5))))
  ELSE Raise("InvalidMoveError")

\* self.move inside uci() is the bound method BessMove.move, never called:
\* a method object has no attribute of a chess.Move
BoundMethodAttributes == {}
\* BessMove.uci
uci(m) ==
  IF "promotion" \notin BoundMethodAttributes THEN Raise("AttributeError")
  ELSE IF m.promotion # None THEN
    IF "from_square" \notin BoundMethodAttributes THEN Raise("AttributeError")
    ELSE OkStr(SQUARE_NAMES[m.from_square + 1] \o SQUARE_NAMES[m.to_square + 1]
               \o <<piece_symbol(m.promotion)>> \o <<":">> \o <<piece_symbol(m.ban_piece)>>)
  ELSE IF MoveBool(m) THEN
    IF "from_square" \notin BoundMethodAttributes THEN Raise("AttributeError")
    ELSE OkStr(SQUARE_NAMES[m.from_square + 1] \o SQUARE_NAMES[m.to_square + 1]
               \o <<":">> \o <<piece_symbol(m.ban_piece)>>)
  ELSE OkStr(<<"0", "0", "0", "0">>)

\* ------------------------------------------------------------ positions
\* <<file, rank, piece type, color>>; files a.. are 0.., ranks 1.. are 0..
PosMixed ==
  [board |-> BoardOf({<<0, 0, KING, WHITE>>, <<2, 0, KNIGHT, WHITE>>, <<1, 2, PAWN, WHITE>>,
                      <<3, 3, KING, BLACK>>, <<0, 3, BISHOP, BLACK>>}),
   turn |-> WHITE]
PosCheckWhite ==
  [board |-> BoardOf({<<0, 0, KING, WHITE>>, <<2, 1, KNIGHT, WHITE>>,
                      <<0, 3, ROOK, BLACK>>, <<2, 3, KING, BLACK>>}),
   turn |-> WHITE]
PosCheckBlack ==
  [board |-> BoardOf({<<0, 0, KING, WHITE>>, <<3, 0, QUEEN, WHITE>>,
                      <<3, 3, KING, BLACK>>, <<0, 2, PAWN, BLACK>>}),
   turn |-> BLACK]
PosKingOnly ==
  [board |-> BoardOf({<<0, 0, KING, WHITE>>, <<0, 1, PAWN, WHITE>>,
                      <<0, 2, PAWN, BLACK>>, <<3, 2, KING, BLACK>>}),
   turn |-> WHITE]
PosMate ==
  [board |-> BoardOf({<<0, 0, KING, WHITE>>,
                      <<1, 1, QUEEN, BLACK>>, <<2, 2, KING, BLACK>>}),
   turn |-> WHITE]
StartPositions == {PosMixed, PosCheckWhite, PosCheckBlack, PosKingOnly, PosMate}
\* The position reset() sets up (chess.STARTING_FEN in the library)
StartingPosition == PosMixed
EmptyBoard == [s \in Squares |-> Empty]

\* ------------------------------------------------------------------ state
VARIABLES board, turn, current_ban, move_stack, stack, last, pre, codec
vars == <<board, turn, current_ban, move_stack, stack, last, pre, codec>>

Self ==
  [board |-> board, turn |-> turn, current_ban |-> current_ban,
   move_stack |-> move_stack, stack |-> stack]

\* What a caller observes of a position
Snapshot(self) ==
  [board |-> self.board, turn |-> self.turn, current_ban |-> self.current_ban,
   move_stack |-> self.move_stack]

\* A push that stores the announced ban while pop stays as inherited
push_sets_ban(self, m) ==
  [board |-> BoardAfter(self.board, self.turn, m),
   turn |-> ~self.turn,
   current_ban |-> m.ban_piece,
   move_stack |-> Append(self.move_stack, Move(m.from_square, m.to_square, m.promotion)),
   stack |-> Append(self.stack, [board |-> self.board, turn |-> self.turn])]

\* chess.Board.push, inherited unchanged: BessBoard defines no push, so the
\* ban announced by the move is not stored and the history keeps a chess.Move
push(self, m) ==
  [board |-> BoardAfter(self.board, self.turn, m),
   turn |-> ~self.turn,
   current_ban |-> self.current_ban,
   move_stack |-> Append(self.move_stack, Move(m.from_square, m.to_square, m.promotion)),
   stack |-> Append(self.stack, [board |-> self.board, turn |-> self.turn])]

\* chess.Board.pop, inherited unchanged (called with a non-empty move_stack)
pop(self) ==
  LET n == Len(self.stack)
  IN [board |-> self.stack[n].board,
      turn |-> self.stack[n].turn,
      current_ban |-> self.current_ban,
      move_stack |-> SubSeq(self.move_stack, 1, Len(self.move_stack) - 1),
      stack |-> SubSeq(self.stack, 1, n - 1)]

\* BessBoard.reset
reset(self) ==
  [board |-> StartingPosition.board, turn |-> StartingPosition.turn,
   current_ban |-> None, move_stack |-> <<>>, stack |-> <<>>]

\* BessBoard.clear
clear(self) ==
  [board |-> EmptyBoard, turn |-> WHITE,
   current_ban |-> None, move_stack |-> <<>>, stack |-> <<>>]

\* Standard chess legality of the board move, the precondition under which
\* callers hand a move to push
ChessLegal(b, t) ==
  {c \in Range(ChessPseudoLegal(b, t, BB_ALL, BB_ALL)) : is_safe(b, t, c)}
\* The moves handed to push: every legal board move with every announcement,
\* and whatever the legal generator itself yields
PushInputs(b, t, yielded) ==
  {BessMove(c.from_square, c.to_square, a, c.promotion) :
     c \in ChessLegal(b, t), a \in PieceTypeSet}
    \cup yielded

\* No position is remembered (the last operation was not a push)
NoPre == [board |-> EmptyBoard, turn |-> WHITE, current_ban |-> None, move_stack |-> <<>>]
\* The codec's value in hand: kind is "none", "str", "move" or "err"
CodecState(kind, origKind, origS, origM, str, m, err, steps) ==
  [kind |-> kind, orig_kind |-> origKind, orig_s |-> origS, orig_m |-> origM,
   s |-> str, m |-> m, err |-> err, steps |-> steps]
NoCodec == CodecState("none", "none", <<>>, BessMove_null, <<>>, BessMove_null, "", <<>>)
Op(name, m, inLegal, result) ==
  [op |-> name, move |-> m, in_legal |-> inLegal, result |-> result]

Become(self) ==
  /\ board' = self.board
  /\ turn' = self.turn
  /\ current_ban' = self.current_ban
  /\ move_stack' = self.move_stack
  /\ stack' = self.stack

Init ==
  /\ \E p \in StartPositions : board = p.board /\ turn = p.turn
  /\ current_ban = None
  /\ move_stack = <<>>
  /\ stack = <<>>
  /\ last = Op("init", BessMove_null, FALSE, "ok")
  /\ pre = NoPre
  /\ codec = NoCodec

Push ==
  /\ Len(move_stack) < MaxPly
  /\ \E legal \in {Range(LegalBessMoveGenerator_iter(board, turn, current_ban))} :
       \E m \in PushInputs(board, turn, legal) :
          /\ Become(push(Self, m))
          /\ last' = Op("push", m, m \in legal, "ok")
  /\ pre' = Snapshot(Self)
  /\ UNCHANGED codec

\* pop directly after a push keeps the position remembered before that push
Pop ==
  /\ \/ /\ move_stack = <<>>
        /\ last' = Op("pop", BessMove_null, FALSE, "IndexError")
        /\ pre' = Snapshot(Self)
        /\ UNCHANGED <<board, turn, current_ban, move_stack, stack>>
     \/ /\ move_stack # <<>>
        /\ Become(pop(Self))
        /\ last' = Op("pop", BessMove_null, last.op = "push" /\ last.in_legal, "ok")
        /\ pre' = IF last.op = "push" THEN pre ELSE NoPre
  /\ UNCHANGED codec

\* Assignment to the public attribute current_ban (BessBoard has no other
\* way to put a ban in force)
SetBan ==
  /\ \E t \in PieceTypeSet \cup {None} :
       /\ t # current_ban
       /\ current_ban' = t
  /\ last' = Op("set_ban", BessMove_null, FALSE, "ok")
  /\ pre' = NoPre
  /\ UNCHANGED <<board, turn, move_stack, stack, codec>>

Reset ==
  /\ move_stack # <<>> \/ current_ban # None
  /\ Become(reset(Self))
  /\ last' = Op("reset", BessMove_null, FALSE, "ok")
  /\ pre' = NoPre
  /\ UNCHANGED codec

Clear ==
  /\ move_stack # <<>> \/ current_ban # None
  /\ Become(clear(Self))
  /\ last' = Op("clear", BessMove_null, FALSE, "ok")
  /\ pre' = NoPre
  /\ UNCHANGED codec

Next == Push \/ Pop \/ SetBan \/ Reset \/ Clear

Spec == Init /\ [][Next]_vars

\* ---------------------------------------------------- codec state machine
MaxTail == 3
TailAlphabet == {":", "n", "q", "k", "x"}
RECURSIVE StringsUpTo(_)
StringsUpTo(n) ==
  IF n = 0 THEN {<<>>}
  ELSE LET shorter == StringsUpTo(n - 1)
       IN shorter \cup {Append(t, c) : t \in {x \in shorter : Len(x) = n - 1}, c \in TailAlphabet}
SquareTexts == {<<"e", "2">>, <<"e", "4">>, <<"a", "7">>, <<"i", "9">>}
InputStrings ==
  {a \o b \o t : a \in SquareTexts, b \in SquareTexts, t \in StringsUpTo(MaxTail)}
    \cup {<<"0", "0", "0", "0">>, <<>>, <<"e", "2">>, <<":", "n">>}
InputSquares == {IndexOf(SQUARE_NAMES, <<"e", "2">>), IndexOf(SQUARE_NAMES, <<"e", "4">>),
                 IndexOf(SQUARE_NAMES, <<"a", "7">>), IndexOf(SQUARE_NAMES, <<"a", "8">>)}
InputMoves ==
  {BessMove(f, t, ban, promo) :
     f \in InputSquares, t \in InputSquares, ban \in PieceTypeSet,
     promo \in {None, KNIGHT, BISHOP, ROOK, QUEEN}} \cup {BessMove_null}

InitCodec ==
  /\ board = StartingPosition.board
  /\ turn = StartingPosition.turn
  /\ current_ban = None
  /\ move_stack = <<>>
  /\ stack = <<>>
  /\ last = Op("init", BessMove_null, FALSE, "ok")
  /\ pre = NoPre
  /\ \/ \E str \in InputStrings :
          codec = CodecState("str", "str", str, BessMove_null, str, BessMove_null, "", <<>>)
     \/ \E m \in InputMoves :
          codec = CodecState("move", "move", <<>>, m, <<>>, m, "", <<>>)

Decode ==
  /\ codec.kind = "str"
  /\ Len(codec.steps) < 2
  /\ LET r == from_uci(codec.s)
     IN codec' = [codec EXCEPT !.kind = IF r.ok THEN "move" ELSE "err",
                               !.m = r.move, !.s = <<>>, !.err = r.err,
                               !.steps = Append(codec.steps, "from_uci")]
  /\ UNCHANGED <<board, turn, current_ban, move_stack, stack, last, pre>>

Encode ==
  /\ codec.kind = "move"
  /\ Len(codec.steps) < 2
  /\ LET r == uci(codec.m)
     IN codec' = [codec EXCEPT !.kind = IF r.ok THEN "str" ELSE "err",
                               !.s = r.str, !.m = BessMove_null, !.err = r.err,
                               !.steps = Append(codec.steps, "uci")]
  /\ UNCHANGED <<board, turn, current_ban, move_stack, stack, last, pre>>

NextCodec == Decode \/ Encode

SpecCodec == InitCodec /\ [][NextCodec]_vars

\* ------------------------------------------------------------ properties
\* The board moves of standard chess for the side to move, and those among
\* them whose origin piece is not of the banned type
RefPseudo(b, t) == Range(ChessPseudoLegal(b, t, BB_ALL, BB_ALL))
RefPseudoUnbanned(b, t, ban) ==
  {c \in RefPseudo(b, t) : piece_type_at(b, c.from_square) # ban}
RefBanLegal(b, t, ban) ==
  {c \in ChessLegal(b, t) : piece_type_at(b, c.from_square) # ban}
WithBans(chessMoves) ==
  {BessMove(c.from_square, c.to_square, ban, c.promotion) :
     c \in chessMoves, ban \in PieceTypeSet}

\* C1: after a move has been applied, current_ban is the ban_piece that the
\* most recently applied move announced.
BanIsLastAnnounced ==
  last.op = "push" => current_ban = last.move.ban_piece

\* C2: with a ban in force, in check or not, no move yielded by iterating the
\* legal-move generator starts from a piece of the banned type.
LegalExcludesBannedOrigin ==
  current_ban # None =>
    \A m \in Range(LegalBessMoveGenerator_iter(board, turn, current_ban)) :
      piece_type_at(board, m.from_square) # current_ban

\* C3: the pseudo-legal generator yields exactly the product of (the chess
\* moves of the mover's pieces not of the banned type) with the six piece
\* types, each pair once: six times as many as those chess moves, the
\* unrestricted output when the mover has no piece of the banned type, and
\* nothing when only banned-type pieces have moves.
PseudoIsProduct ==
  \A gen \in {PseudoLegalBessMoveGenerator_iter(board, turn, current_ban)} :
  \A chess \in {RefPseudoUnbanned(board, turn, current_ban)} :
     /\ Range(gen) = WithBans(chess)
     /\ Len(gen) = Cardinality(Range(gen))
     /\ Len(gen) = 6 * Cardinality(chess)
     /\ (OfType(board, current_ban) \cap occupied_co(board, turn) = {}
           => gen = PseudoLegalBessMoveGenerator_iter(board, turn, None))
     /\ ((\A c \in RefPseudo(board, turn) :
            piece_type_at(board, c.from_square) = current_ban) => gen = <<>>)
PseudoIsProduct_Witness ==
  /\ current_ban # None
  /\ last.op = "push"
  /\ RefPseudoUnbanned(board, turn, current_ban) # {}
  /\ RefPseudoUnbanned(board, turn, current_ban) # RefPseudo(board, turn)
  /\ \E c \in RefPseudo(board, turn) : c.promotion # None

\* C5: the position is a stalemate (is_stalemate) exactly when the side to move is not in
\* check and no legal chess move is left once the moves of banned-type pieces
\* are removed; so a side whose only legal moves are king moves is stalemated
\* under a king ban.
StalemateIffNoBanLegal ==
  is_stalemate(board, turn, current_ban)
    <=> (~is_check(board, turn) /\ RefBanLegal(board, turn, current_ban) = {})
StalemateByBan_Witness ==
  /\ is_stalemate(board, turn, current_ban)
  /\ current_ban = KING
  /\ ChessLegal(board, turn) # {}
  /\ \A c \in ChessLegal(board, turn) : piece_type_at(board, c.from_square) = KING

\* C6: the position is a checkmate (is_checkmate) exactly when the king of the side to move is
\* attacked and no legal chess move is left once the moves of banned-type
\* pieces are removed.
CheckmateIffNoBanLegal ==
  is_checkmate(board, turn, current_ban)
    <=> (is_check(board, turn) /\ RefBanLegal(board, turn, current_ban) = {})

\* C7: applying a move that the legal generator does not yield fails with
\* IllegalMoveError and leaves board, side to move, ban and history as they were.
IllegalApplyRejected ==
  (last.op = "push" /\ ~last.in_legal) =>
    (last.result = "IllegalMoveError" /\ Snapshot(Self) = pre)

\* C8: for every Ban-move, membership in the pseudo-legal (legal) generator
\* holds exactly when iterating that generator yields the move.
MembershipMirrorsGenerators ==
  \A m \in WithBans(RefPseudo(board, turn)) :
    /\ PseudoLegalBessMoveGenerator_contains(board, turn, current_ban, m)
         <=> m \in Range(PseudoLegalBessMoveGenerator_iter(board, turn, current_ban))
    /\ LegalBessMoveGenerator_contains(board, turn, current_ban, m)
         <=> m \in Range(LegalBessMoveGenerator_iter(board, turn, current_ban))

\* C10: undoing a move right after applying it gives back the board, side to
\* move, ban and history from before it; undoing with an empty history fails
\* and changes nothing.
UndoInvertsApply ==
  /\ (last.op = "pop" /\ last.result = "ok" /\ last.in_legal) => Snapshot(Self) = pre
  /\ (last.op = "pop" /\ last.result # "ok") =>
       (last.result = "IndexError" /\ move_stack = <<>> /\ Snapshot(Self) = pre)
UndoInvertsApply_Witness ==
  /\ last.op = "pop"
  /\ last.result = "ok"
  /\ last.in_legal
  /\ move_stack = <<>>
  /\ current_ban = None
  /\ Snapshot(Self) = pre

\* The notation grammar: <from2><to2>:<ban1> or <from2><to2><promo1>:<ban1>
WellFormed(str) ==
  /\ Len(str) \in {6, 7}
  /\ HasIndex(SQUARE_NAMES, Slice(str, 0, 2))
  /\ HasIndex(SQUARE_NAMES, Slice(str, 2, 4))
  /\ Slice(str, 0, 2) # Slice(str, 2, 4)
  /\ str[Len(str) - 1] = ":"
  /\ str[Len(str)] \in {"p", "n", "b", "r", "q", "k"}
  /\ Len(str) = 7 => str[5] \in {"n", "b", "r", "q"}

\* C4: decoding a well-formed string (or 0000) and encoding the result gives
\* the string back; encoding a Ban-move (or the null move) and decoding the
\* result gives the move back.
CodecRoundTrip ==
  /\ (codec.orig_kind = "str" /\ codec.steps # <<>>
        /\ (WellFormed(codec.orig_s) \/ codec.orig_s = <<"0", "0", "0", "0">>))
       => /\ codec.kind # "err"
          /\ Len(codec.steps) = 2 => codec.s = codec.orig_s
  /\ (codec.orig_kind = "move" /\ codec.steps # <<>>
        /\ (codec.orig_m = BessMove_null \/ codec.orig_m.from_square # codec.orig_m.to_square))
       => /\ codec.kind # "err"
          /\ Len(codec.steps) = 2 => codec.m = codec.orig_m

\* C9: decoding any string that is neither 0000 nor well-formed fails with
\* the invalid-notation error (chess.InvalidMoveError) and no other error.
MalformedRejectedAsInvalid ==
  (codec.orig_kind = "str" /\ codec.steps = <<"from_uci">>
     /\ ~WellFormed(codec.orig_s) /\ codec.orig_s # <<"0", "0", "0", "0">>)
    => (codec.kind = "err" /\ codec.err = "InvalidMoveError")

====
